---- MODULE Spec2Model ----
(***************************************************************************)
(* BookBotAI: the query router (AgentSystem), the URL agent (URLAgent) and *)
(* the content analyzer (URLAnalyzer).                                     *)
(*                                                                         *)
(* Strings are modelled as sequences.  A query or a URL is a sequence of   *)
(* tokens and `w in s` is the occurrence of token w in s; lower() maps     *)
(* every token to its lowercase form.  A body of text (page text, content  *)
(* sample) is a sequence of pieces [src, lo, hi]: the characters lo..hi-1  *)
(* of the source src, so that slicing and len() are computed, not assumed. *)
(* The outcomes of HTTP fetches and LLM invocations are inputs (env).      *)
(***************************************************************************)
EXTENDS Integers, Sequences, FiniteSets, TLC

VARIABLES current_url, current_analysis, call

vars == <<current_url, current_analysis, call>>

Max(a, b) == IF a >= b THEN a ELSE b
Min(a, b) == IF a <= b THEN a ELSE b

(***************************************************************************)
(* Bounds and program constants                                            *)
(***************************************************************************)
\* how far around each threshold the analysed text lengths range
Slack == 1

max_content_length == 16000
genre_excerpt_len == 8000
error_content_len == 4000
chat_excerpt_len == 8000
middle_marker_len == 34
later_marker_len == 33
fetch_error_len == 35

(***************************************************************************)
(* Optional[str], tokens, `in`, lower()                                    *)
(***************************************************************************)
None == <<"None">>
EmptyStr == << >>

\* Python truthiness of an Optional[str]
Truthy(u) == u # None /\ u # EmptyStr

\* `w in s`
Contains(s, w) == \E i \in 1..Len(s) : s[i] = w

LowerTok(w) ==
  CASE w = "SUMMARY" -> "summary"
    [] w = "Summarize" -> "summarize"
    [] w = "Classify" -> "classify"
    [] w = "GENRE" -> "genre"
    [] w = "This Book" -> "this book"
    [] w = "The Book" -> "the book"
    [] OTHER -> w

\* str.lower()
Lower(s) == [i \in 1..Len(s) |-> LowerTok(s[i])]

(***************************************************************************)
(* Text as pieces: len() and slicing                                       *)
(***************************************************************************)
Piece(src, lo, hi) == [src |-> src, lo |-> lo, hi |-> hi]

\* a text of n characters taken from source src
Text(src, n) == IF n = 0 THEN << >> ELSE <<Piece(src, 0, n)>>

RECURSIVE TLen(_)
\* len(t)
TLen(t) == IF t = << >> THEN 0 ELSE (Head(t).hi - Head(t).lo) + TLen(Tail(t))

RECURSIVE Slice(_, _, _)
\* the characters of t with index in [a, b), for 0 <= a
Slice(t, a, b) ==
  IF t = << >> \/ b <= a THEN << >>
  ELSE LET p == Head(t)
           n == p.hi - p.lo
       IN IF a >= n THEN Slice(Tail(t), a - n, b - n)
          ELSE <<Piece(p.src, p.lo + a, p.lo + Min(b, n))>>
                 \o Slice(Tail(t), 0, b - n)

\* a slice bound as Python resolves it against a length
PyIndex(i, n) == IF i < 0 THEN Max(i + n, 0) ELSE Min(i, n)

\* t[i:j]
PySlice(t, i, j) == Slice(t, PyIndex(i, TLen(t)), PyIndex(j, TLen(t)))

\* t[:j]
PyPrefix(t, j) == PySlice(t, 0, j)

\* t[i:]
PySuffix(t, i) == PySlice(t, i, TLen(t))

\* a message string: its fixed text k, the title or key t it embeds, the length n
\* of the text its prompt embedded, the exception message e it embeds
Txt(k, t, n) == [k |-> k, t |-> t, n |-> n, e |-> ""]

\* str(e) of the exception a failed llm.invoke raises
LlmError == "llm error"

\* a message string embedding str(e)
ErrTxt(k, t) == [k |-> k, t |-> t, n |-> 0, e |-> LlmError]
NoTxt == Txt("", "", 0)

(***************************************************************************)
(* URLAnalyzer                                                             *)
(***************************************************************************)
\* an analysis record: a dict with the keys in `keys`
\* (`of` is not a key: it remembers the URL whose analysis made the record)
Record(keys, title, summary, genre, content, error, url, of) ==
  [keys |-> keys, title |-> title, summary |-> summary, genre |-> genre,
   content |-> content, error |-> error, url |-> url, of |-> of]

\* the value None of current_analysis
NoAnalysis == Record({"None"}, "", NoTxt, NoTxt, << >>, NoTxt, None, None)

\* dict.get(k, default) for the keys the program reads
Get(a, k, default) == IF k \in a.keys THEN a[k] ELSE default

\* truthiness of an Optional[dict]
AnalysisTruthy(a) == a # NoAnalysis /\ a.keys # {}

\* the outcomes of the fetches and LLM invocations of one analysis:
\*   meta:  "title" (heading found), "notitle" (no heading), "fail" (fetch raised)
\*   text:  the page text extract_text_from_url returns
\*   summary, genre:  "ok" or "raise", the two llm.invoke calls
Env(meta, text, summary, genre) ==
  [meta |-> meta, text |-> text, summary |-> summary, genre |-> genre]

BookTitle(url) == IF Contains(url, "/ebooks/11") THEN "Alice" ELSE "Frankenstein"

\* _extract_metadata_from_url: the title it yields
MetadataTitle(url, env) ==
  CASE env.meta = "title" -> BookTitle(url)
    [] env.meta = "notitle" -> ""
    [] OTHER -> "Unknown Title"

\* int(max_content_length/3)
SegLen == max_content_length \div 3

\* mutant: the middle segment starts at the midpoint instead of around it
MiddleStart_AtMidpoint(n) == n \div 2

\* int(len(content)/2 - max_content_length/6), for len(content) > max_content_length
MiddleStart(n) == (3 * n - max_content_length) \div 6

Beginning(content) == PyPrefix(content, SegLen)
Middle(content) ==
  PySlice(content, MiddleStart(TLen(content)), MiddleStart(TLen(content)) + SegLen)

\* mutant: the end segment is content[n:] instead of content[-n:]
End_FromFront(content) == PySuffix(content, SegLen)

End(content) == PySuffix(content, 0 - SegLen)

\* content_sample
ContentSample(content) ==
  IF TLen(content) > max_content_length
  THEN Beginning(content) \o Text("middle_marker", middle_marker_len)
         \o Middle(content) \o Text("later_marker", later_marker_len)
         \o End(content)
  ELSE content

\* mutant: the genre call is made whether or not the summary call returned
AnalysisLlmCalls_GenreAlways(env) == <<"summary", "genre">>

\* the llm.invoke calls _analyze_content_with_gemini makes, in order
AnalysisLlmCalls(env) ==
  IF env.summary = "ok" THEN <<"summary", "genre">> ELSE <<"summary">>

\* the excerpt the genre prompt embeds
GenreExcerpt(content) == PyPrefix(ContentSample(content), genre_excerpt_len)

\* mutant: the except branch keeps the whole sample
ErrorFields_FullSample(sample) ==
  [summary |-> ErrTxt("Error generating summary: ", ""),
   genre |-> Txt("Unknown", "", 0),
   content |-> sample]

\* the except branch of _analyze_content_with_gemini
ErrorFields(sample) ==
  [summary |-> ErrTxt("Error generating summary: ", ""),
   genre |-> Txt("Unknown", "", 0),
   content |-> PyPrefix(sample, error_content_len)]

\* _analyze_content_with_gemini: the fields it returns
AnalyzeContentWithGemini(content, title, env) ==
  LET sample == ContentSample(content)
  IN IF env.summary = "ok" /\ env.genre = "ok"
     THEN [summary |-> Txt("llm summary", title, TLen(sample)),
           genre |-> Txt("llm genre", title, TLen(GenreExcerpt(content))),
           content |-> sample]
     ELSE ErrorFields(sample)

AnalysisKeys ==
  {"title", "author", "language", "year", "summary", "genre", "content", "url"}

\* mutant: any non-empty URL is taken for a Project Gutenberg URL
IsGutenberg_AnyUrl(url) == Len(url) > 0

\* the test of the first statement of URLAnalyzer.analyze_url
IsGutenberg(url) == Contains(url, "gutenberg.org")

\* URLAnalyzer.analyze_url: the record, the HTTP fetches and the LLM invocations.
\* Three session.get calls are made (metadata, content link, text); each helper
\* catches its own exceptions, so the outer except branch is never taken for a
\* string url and the method always returns.
AnalyzerAnalyzeUrl(url, env) ==
  IF ~IsGutenberg(url)
  THEN [record |-> Record({"error"}, "", NoTxt, NoTxt, << >>,
                          Txt("This URL does not appear to be from Project Gutenberg.", "", 0),
                          None, url),
        fetches |-> 0, llm |-> << >>]
  ELSE LET title == MetadataTitle(url, env)
           a == AnalyzeContentWithGemini(env.text, title, env)
       IN [record |-> Record(AnalysisKeys, title, a.summary, a.genre, a.content,
                             NoTxt, url, url),
           fetches |-> 3, llm |-> AnalysisLlmCalls(env)]

(***************************************************************************)
(* URLAgent                                                                *)
(***************************************************************************)
Reply(response, r, llm, excerpt) ==
  [response |-> response, record |-> r.record, fetches |-> r.fetches,
   llm |-> r.llm \o llm, excerpt |-> excerpt]

\* the excerpt of the fallback prompt: content[:8000] + "..."
SmallerContent(content) == PyPrefix(content, chat_excerpt_len) \o Text("...", 3)

\* mutant: the fallback is also taken at exactly 8000 characters
NeedsFallback_AtThreshold(content) == TLen(content) >= chat_excerpt_len

\* the test guarding the fallback prompt
NeedsFallback(content) == TLen(content) > chat_excerpt_len

\* the try/except around the chat prompt; chat is the outcome of the calls:
\*   "ok" (first invoke returns), "raise_ok" / "raise_raise" (first invoke
\*   raises, then the outcome of the fallback invoke), "nollm" (_get_llm raises,
\*   so that llm is unbound in the handler)
ChatInvoke(r, title, content, chat) ==
  IF chat = "ok"
  THEN Reply(Txt("llm chat", title, TLen(content)), r, <<"chat">>, << >>)
  ELSE LET first == IF chat = "nollm" THEN << >> ELSE <<"chat">>
       IN IF NeedsFallback(content)
          THEN CASE chat = "raise_ok" ->
                      Reply(Txt("llm chat", title, TLen(SmallerContent(content))), r,
                            first \o <<"chat_retry">>, SmallerContent(content))
                 [] chat = "raise_raise" ->
                      Reply(Txt("I'm sorry, but I couldn't process your query", title, 0),
                            r, first \o <<"chat_retry">>, SmallerContent(content))
                 [] OTHER ->
                      Reply(Txt("I'm sorry, but I couldn't process your query", title, 0),
                            r, first, SmallerContent(content))
          ELSE Reply(ErrTxt("Error processing your query about", title), r, first,
                     << >>)

\* mutant: the chat uses the session's analysis when it is one of the same URL
AgentChatWithUrl_ReuseCache(url, env, chat) ==
  LET hit == url = current_url /\ AnalysisTruthy(current_analysis)
      r == IF hit
           THEN [record |-> current_analysis, fetches |-> 0, llm |-> << >>]
           ELSE AnalyzerAnalyzeUrl(url, env)
      a == r.record
  IN IF "error" \in a.keys
     THEN Reply(Txt("Error: ", "", 0), r, << >>, << >>)
     ELSE IF Get(a, "content", << >>) = << >>
          THEN Reply(Txt("No content available for URL: ", "", 0), r, << >>, << >>)
          ELSE ChatInvoke(r, Get(a, "title", "Unknown Title"),
                          Get(a, "content", << >>), chat)

\* URLAgent.chat_with_url
AgentChatWithUrl(url, env, chat) ==
  LET r == AnalyzerAnalyzeUrl(url, env)
      a == r.record
  IN IF "error" \in a.keys
     THEN Reply(Txt("Error: ", "", 0), r, << >>, << >>)
     ELSE IF Get(a, "content", << >>) = << >>
          THEN Reply(Txt("No content available for URL: ", "", 0), r, << >>, << >>)
          ELSE ChatInvoke(r, Get(a, "title", "Unknown Title"),
                          Get(a, "content", << >>), chat)

\* URLAgent.get_book_summary / URLAgent.classify_genre (field is the key read)
AgentGetField(url, env, field) ==
  LET r == AnalyzerAnalyzeUrl(url, env)
  IN Reply(Get(r.record, field, Txt("Unable to", field, 0)), r, << >>, << >>)

(***************************************************************************)
(* AgentSystem                                                             *)
(***************************************************************************)
BookReferences == {"the book", "this book", "current book"}

UsesGenericReference(query) == \E ref \in BookReferences : Contains(Lower(query), ref)

\* mutant: the session URL is used only for a generic book reference
ExtractUrlReference_OnlyOnReference(query, arg, session_url) ==
  IF UsesGenericReference(query) /\ Truthy(session_url) THEN session_url ELSE arg

\* AgentSystem._extract_url_reference (arg is its current_url parameter)
ExtractUrlReference(query, arg, session_url) ==
  IF UsesGenericReference(query) /\ Truthy(arg) THEN arg
  ELSE IF ~Truthy(arg) /\ Truthy(session_url) THEN session_url
  ELSE arg

\* mutant: the genre test comes first
Intent_GenreFirst(query) ==
  IF Contains(Lower(query), "genre") \/ Contains(Lower(query), "classify")
  THEN "genre"
  ELSE IF Contains(Lower(query), "summarize") \/ Contains(Lower(query), "summary")
       THEN "summary"
       ELSE "chat"

\* the if / elif / else chain of process_user_query (the two branches under
\* the summary test are the same code)
Intent(query) ==
  IF Contains(Lower(query), "summarize") \/ Contains(Lower(query), "summary")
  THEN "summary"
  ELSE IF Contains(Lower(query), "genre") \/ Contains(Lower(query), "classify")
       THEN "genre"
       ELSE "chat"

\* mutant: the cached branch is taken when there is no analysis
CacheHit_Inverted(url, session_url, session_analysis) ==
  url = session_url /\ ~AnalysisTruthy(session_analysis)

\* the test guarding the cached branch of get_book_summary / classify_genre
CacheHit(url, session_url, session_analysis) ==
  url = session_url /\ AnalysisTruthy(session_analysis)

\* AgentSystem.get_book_summary / AgentSystem.classify_genre
GetField(url, env, field, session_url, session_analysis) ==
  IF CacheHit(url, session_url, session_analysis)
  THEN [response |-> Get(session_analysis, field, Txt("Unable to", field, 0)),
        record |-> NoAnalysis, fetches |-> 0, llm |-> << >>, excerpt |-> << >>]
  ELSE AgentGetField(url, env, field)

\* mutant: an error record is not stored, the URL is
SessionAfterAnalyze_KeepOnError(url, record, session_url, session_analysis) ==
  [url |-> url,
   analysis |-> IF "error" \in record.keys THEN session_analysis ELSE record]

\* the session AgentSystem.analyze_url leaves
SessionAfterAnalyze(url, record, session_url, session_analysis) ==
  [url |-> url, analysis |-> record]

\* mutant: a record analysed during the query is stored with its URL
SessionAfterQuery_CacheFresh(intent, url, record, session_url, session_analysis) ==
  IF record # NoAnalysis
  THEN [url |-> url, analysis |-> record]
  ELSE [url |-> session_url, analysis |-> session_analysis]

\* the session process_user_query leaves: no branch assigns to it
SessionAfterQuery(intent, url, record, session_url, session_analysis) ==
  [url |-> session_url, analysis |-> session_analysis]

\* the title every non-error branch of process_user_query reports
ResultTitle(session_analysis) ==
  IF AnalysisTruthy(session_analysis)
  THEN Get(session_analysis, "title", "Unknown Title")
  ELSE "Unknown Title"

QueryResult(keys, type, title, content, query) ==
  [keys |-> keys, type |-> type, title |-> title, content |-> content,
   query |-> query]

NoResult == QueryResult({}, "", "", NoTxt, << >>)

ErrorResult ==
  QueryResult({"type", "content"}, "error", "",
              Txt("Please provide a Project Gutenberg URL first.", "", 0), << >>)

\* the reply of the branch process_user_query takes for a resolved url
Dispatch(query, url, env, chat, session_url, session_analysis) ==
  CASE Intent(query) = "summary" ->
         GetField(url, env, "summary", session_url, session_analysis)
    [] Intent(query) = "genre" ->
         GetField(url, env, "genre", session_url, session_analysis)
    [] OTHER -> AgentChatWithUrl(url, env, chat)

\* mutant: the title is taken from the record analysed during the call
Respond_FreshTitle(query, reply, session_analysis) ==
  LET a == IF reply.record # NoAnalysis THEN reply.record ELSE session_analysis
  IN IF Intent(query) = "chat"
     THEN QueryResult({"type", "title", "query", "content"}, "chat",
                      ResultTitle(a), reply.response, query)
     ELSE QueryResult({"type", "title", "content"}, Intent(query),
                      ResultTitle(a), reply.response, << >>)

\* the dict process_user_query returns for a resolved url
Respond(query, reply, session_analysis) ==
  IF Intent(query) = "chat"
  THEN QueryResult({"type", "title", "query", "content"}, "chat",
                   ResultTitle(session_analysis), reply.response, query)
  ELSE QueryResult({"type", "title", "content"}, Intent(query),
                   ResultTitle(session_analysis), reply.response, << >>)

(***************************************************************************)
(* Inputs                                                                  *)
(***************************************************************************)
G1 == <<"https://www.", "gutenberg.org", "/ebooks/11">>
G2 == <<"https://www.", "gutenberg.org", "/ebooks/84">>
X1 == <<"https://", "example.com", "/book">>

Urls == {G1, G2, X1}
UrlArgs == Urls \cup {None, EmptyStr}

IntentWords == {"summarize", "SUMMARY", "genre", "Classify"}
RefWords == {"the book", "This Book", "current book"}
OtherWords == {"tell"}

Queries ==
  {<< >>} \cup {<<w>> : w \in IntentWords \cup RefWords \cup OtherWords}
    \cup {<<a, b>> : a \in IntentWords \cup OtherWords, b \in RefWords}
    \cup {<<a, b>> : a \in {"SUMMARY", "genre"}, b \in {"summarize", "Classify", "genre"}}

\* the page texts a session's fetches return
SessionTexts ==
  {Text("text", n) : n \in {0, chat_excerpt_len, chat_excerpt_len + 1,
                            max_content_length + 1}}
    \cup {Text("Error extracting content from URL: ", fetch_error_len)}

LlmOutcomes == {<<"ok", "ok">>, <<"ok", "raise">>, <<"raise", "none">>}

SessionEnvs ==
  {Env(m, t, o[1], o[2]) : m \in {"title", "fail"}, t \in SessionTexts,
                           o \in LlmOutcomes}

NoEnv == Env("none", << >>, "none", "none")

ChatOutcomes == {"ok", "raise_ok", "raise_raise", "nollm"}

(***************************************************************************)
(* State                                                                   *)
(***************************************************************************)
\* what the last call was given, did and returned
Call(op, query, arg, url, env, chat, reply, result) ==
  [op |-> op, query |-> query, arg |-> arg, url |-> url, env |-> env, chat |-> chat,
   record |-> reply.record, fetches |-> reply.fetches, llm |-> reply.llm,
   excerpt |-> reply.excerpt, response |-> reply.response, result |-> result,
   raised |-> {}]

NoReply ==
  [response |-> NoTxt, record |-> NoAnalysis, fetches |-> 0, llm |-> << >>,
   excerpt |-> << >>]

\* no call in progress and no returned value pending
Idle == Call("idle", << >>, None, None, NoEnv, "none", NoReply, NoResult)

\* AgentSystem.__init__
Init ==
  /\ current_url = None
  /\ current_analysis = NoAnalysis
  /\ call = Idle

\* AgentSystem.analyze_url(url)
AnalyzeUrl ==
  /\ call = Idle
  /\ \E url \in Urls \cup {EmptyStr} :
    \E env \in (IF IsGutenberg(url) THEN SessionEnvs ELSE {NoEnv}) :
      LET r == AnalyzerAnalyzeUrl(url, env)
          s == SessionAfterAnalyze(url, r.record, current_url, current_analysis)
      IN /\ current_url' = s.url
         /\ current_analysis' = s.analysis
         /\ call' = Call("analyze_url", << >>, url, url, env, "none",
                         Reply(NoTxt, r, << >>, << >>), NoResult)

\* the outcomes a call can meet: none where it fetches nothing and invokes nothing
EnvsFor(query, url) ==
  IF ~IsGutenberg(url)
       \/ (Intent(query) # "chat" /\ CacheHit(url, current_url, current_analysis))
  THEN {NoEnv} ELSE SessionEnvs

ChatsFor(query, url, env) ==
  IF Intent(query) = "chat" /\ env # NoEnv
       /\ Get(AnalyzerAnalyzeUrl(url, env).record, "content", << >>) # << >>
  THEN ChatOutcomes ELSE {"none"}

\* the statements that raise during a call that met the outcomes env and chat
\* and got reply: the session.get calls, the llm.invoke calls, _get_llm, and
\* the use of the unbound name llm in the fallback
RaisedSites(env, chat, reply) ==
  LET analysed == reply.record # NoAnalysis /\ "error" \notin reply.record.keys
      long == analysed /\ NeedsFallback(reply.record.content)
  IN (IF analysed /\ env.meta = "fail"
      THEN {"metadata_fetch", "content_link_fetch"} ELSE {})
       \cup (IF analysed /\ env.text # << >>
                 /\ env.text[1].src = "Error extracting content from URL: "
              THEN {"text_fetch"} ELSE {})
       \cup (IF analysed /\ env.summary = "raise" THEN {"summary"} ELSE {})
       \cup (IF analysed /\ env.genre = "raise" THEN {"genre"} ELSE {})
       \cup (IF chat = "nollm" THEN {"get_llm"} ELSE {})
       \cup (IF chat = "nollm" /\ long THEN {"unbound_llm"} ELSE {})
       \cup (IF chat \in {"raise_ok", "raise_raise"} THEN {"chat"} ELSE {})
       \cup (IF chat = "raise_raise" /\ long THEN {"chat_retry"} ELSE {})

\* mutant: the fallback invocation is not wrapped in a try of its own
Handled_NoInnerTry ==
  {"text_fetch", "metadata_fetch", "content_link_fetch", "summary", "genre",
   "get_llm", "chat"}

\* the statements that lie in a try block whose except clause catches what
\* they raise: extract_text_from_url, _extract_metadata_from_url,
\* _get_content_url, _analyze_content_with_gemini, and the outer and the inner
\* try of chat_with_url
Handled ==
  {"text_fetch", "metadata_fetch", "content_link_fetch", "summary", "genre",
   "get_llm", "chat", "chat_retry", "unbound_llm"}

\* the exceptions that reach the caller of process_user_query
Escaped(env, chat, reply) == RaisedSites(env, chat, reply) \ Handled

\* AgentSystem.process_user_query(query, arg)
ProcessUserQuery ==
  /\ call = Idle
  /\ \E query \in Queries, arg \in UrlArgs :
    LET url == ExtractUrlReference(query, arg, current_url)
    IN IF ~Truthy(url)
       THEN /\ call' = Call("process_user_query", query, arg, url, NoEnv, "none",
                            NoReply, ErrorResult)
            /\ UNCHANGED <<current_url, current_analysis>>
       ELSE \E env \in EnvsFor(query, url) :
              \E chat \in ChatsFor(query, url, env) :
                LET reply == Dispatch(query, url, env, chat, current_url,
                                      current_analysis)
                    s == SessionAfterQuery(Intent(query), url, reply.record,
                                           current_url, current_analysis)
                IN /\ current_url' = s.url
                   /\ current_analysis' = s.analysis
                   /\ call' =
                        [Call("process_user_query", query, arg, url, env, chat, reply,
                              IF Escaped(env, chat, reply) = {}
                              THEN Respond(query, reply, s.analysis) ELSE NoResult)
                           EXCEPT !.raised = Escaped(env, chat, reply)]

\* the caller takes the returned value; the session is then ready for the next call
Return ==
  /\ call # Idle
  /\ call' = Idle
  /\ UNCHANGED <<current_url, current_analysis>>

Next == AnalyzeUrl \/ ProcessUserQuery \/ Return

Spec == Init /\ [][Next]_vars

(***************************************************************************)
(* The content analysis on its own: _analyze_content_with_gemini applied   *)
(* to texts of the lengths around its thresholds                           *)
(***************************************************************************)
LenMarks ==
  {error_content_len, genre_excerpt_len, max_content_length,
   2 * max_content_length, 3 * max_content_length}

SampleLens == {0} \cup {m + d : m \in LenMarks, d \in (0 - Slack)..Slack}

AnalysisEnvs ==
  {Env(m, Text("text", n), o[1], o[2]) : m \in {"title", "notitle", "fail"},
                                         n \in SampleLens, o \in LlmOutcomes}

\* URLAnalyzer._analyze_content_with_gemini(content, metadata)
AnalyzeContent ==
  /\ call = Idle
  /\ \E env \in AnalysisEnvs :
       LET title == MetadataTitle(G1, env)
           a == AnalyzeContentWithGemini(env.text, title, env)
           r == [record |-> Record({"summary", "genre", "content"}, title, a.summary,
                                   a.genre, a.content, NoTxt, None, None),
                 fetches |-> 0, llm |-> AnalysisLlmCalls(env)]
       IN call' = Call("analyze_content", << >>, None, None, env, "none",
                       Reply(NoTxt, r, << >>, << >>), NoResult)
  /\ UNCHANGED <<current_url, current_analysis>>

NextAnalysis == AnalyzeContent \/ Return

SpecAnalysis == Init /\ [][NextAnalysis]_vars

(***************************************************************************)
(* Properties                                                              *)
(***************************************************************************)
IsQuery == call.op = "process_user_query"

\* the number of entries of the call sequence llm that are in the set names
RECURSIVE Count(_, _)
Count(llm, names) ==
  IF llm = << >> THEN 0
  ELSE (IF Head(llm) \in names THEN 1 ELSE 0) + Count(Tail(llm), names)

HasToken(query, words) ==
  \E i \in 1..Len(query) : LowerTok(query[i]) \in words

\* C1: a query containing "the book", "this book" or "current book", asked
\* while the session URL is non-empty, resolves to the session URL whatever
\* URL argument is passed.
C1_GenericReferenceResolvesToSession ==
  (IsQuery /\ HasToken(call.query, {"the book", "this book", "current book"})
     /\ Truthy(current_url))
    => call.url = current_url

\* C2: whenever current_analysis is present it is the record made by analysing
\* current_url (a successful record also names that URL), and the two fields
\* are only ever set together.
C2_SessionPairing ==
  /\ current_analysis = NoAnalysis <=> current_url = None
  /\ current_analysis # NoAnalysis =>
       /\ current_analysis.of = current_url
       /\ "url" \in current_analysis.keys => current_analysis.url = current_url

C2_Witness ==
  /\ IsQuery
  /\ call.record # NoAnalysis
  /\ call.record.of # current_url
  /\ current_analysis # NoAnalysis
  /\ "error" \in current_analysis.keys

\* C3: an analyze_url call that returns an error record leaves current_url and
\* current_analysis as they were before the call.
C3_FailedAnalysisKeepsSession ==
  [][(call'.op = "analyze_url" /\ "error" \in call'.record.keys)
       => (current_url' = current_url /\ current_analysis' = current_analysis)]_vars

\* C4: a summary or genre query whose resolved URL differs from the session URL
\* runs the analyzer on the resolved URL and caches the result: afterwards
\* current_url is the resolved URL and current_analysis the fresh record.
C4_MissCachesFreshResult ==
  [][(call'.op = "process_user_query" /\ Truthy(call'.url)
        /\ Intent(call'.query) \in {"summary", "genre"}
        /\ call'.url # current_url)
       => (/\ call'.record # NoAnalysis
           /\ call'.record.of = call'.url
           /\ current_url' = call'.url
           /\ current_analysis' = call'.record)]_vars

\* C5: while the session holds a successful analysis of u, a summary (genre)
\* query that resolves to u returns the summary (genre) field of the cached
\* record, fetches nothing, invokes no LLM and leaves the session as it is.
C5_CacheHit ==
  [][(call'.op = "process_user_query" /\ Truthy(call'.url)
        /\ HasToken(call'.query, {"summarize", "summary", "genre", "classify"})
        /\ call'.url = current_url
        /\ current_analysis # NoAnalysis /\ "error" \notin current_analysis.keys)
       => (/\ call'.result.content =
                (IF HasToken(call'.query, {"summarize", "summary"})
                 THEN current_analysis.summary ELSE current_analysis.genre)
           /\ call'.fetches = 0
           /\ call'.llm = << >>
           /\ current_url' = current_url
           /\ current_analysis' = current_analysis)]_vars

C5_Witness ==
  /\ IsQuery
  /\ call.result.type = "genre"
  /\ call.url = current_url
  /\ call.arg = None
  /\ call.result.content = current_analysis.genre
  /\ call.result.content.k = "llm genre"
  /\ call.fetches = 0

\* C6: process_user_query returns the error result exactly when neither the
\* URL argument nor the session URL is available; whenever a URL resolves the
\* type is summary, genre or chat, also when the analysis gave an error record
\* or an LLM call failed.
C6_ErrorOnlyWithoutUrl ==
  IsQuery =>
    /\ (~Truthy(call.arg) /\ ~Truthy(current_url)) => call.result = ErrorResult
    /\ (Truthy(call.arg) \/ Truthy(current_url)) =>
         call.result.type \in {"summary", "genre", "chat"}
    /\ call.result.type = "error" => call.result = ErrorResult

C6_Witness ==
  /\ IsQuery
  /\ call.result = ErrorResult
  /\ HasToken(call.query, {"summary"})
  /\ current_analysis # NoAnalysis

\* C7: the intent is summary when the lowercased query contains "summarize" or
\* "summary", also when it contains "genre" or "classify" too; otherwise genre
\* when it contains "genre" or "classify"; otherwise chat.  The result type of
\* a query with a resolved URL is that intent.
C7_FirstMatchWins ==
  (IsQuery /\ Truthy(call.url)) =>
    call.result.type =
      (IF HasToken(call.query, {"summarize", "summary"}) THEN "summary"
       ELSE IF HasToken(call.query, {"genre", "classify"}) THEN "genre"
       ELSE "chat")

C7_Witness ==
  /\ IsQuery
  /\ call.query = <<"genre", "summarize">>
  /\ call.result.type = "summary"

\* excerpt is the first n characters of content followed by "..."
IsExcerptOf(excerpt, content, n) ==
  LET m == Len(excerpt) - 1
  IN /\ m >= 1 /\ m <= Len(content)
     /\ excerpt[m + 1] = Piece("...", 0, 3)
     /\ TLen(excerpt) = n + 3
     /\ \A i \in 1..(m - 1) : excerpt[i] = content[i]
     /\ excerpt[m].src = content[m].src /\ excerpt[m].lo = content[m].lo

\* C8: a chat query invokes the chat LLM at most twice; the second invocation
\* happens exactly when the first one failed and the content is longer than
\* 8000 characters, and it is given the first 8000 characters; when it fails
\* too the apology is returned; with content of 8000 characters or fewer a
\* failed first invocation is returned as "Error processing your query about
\* '<title>': <message>" and nothing is invoked again.
C8_ChatRetry ==
  (IsQuery /\ call.result.type = "chat") =>
    LET first == Count(call.llm, {"chat"})
        retry == Count(call.llm, {"chat_retry"})
        failed == first = 1 /\ call.chat \in {"raise_ok", "raise_raise"}
        long == TLen(call.record.content) > 8000
    IN /\ first <= 1 /\ retry <= 1
       /\ retry = 1 <=> (failed /\ long)
       /\ retry = 1 => /\ call.llm[Len(call.llm)] = "chat_retry"
                       /\ call.llm[Len(call.llm) - 1] = "chat"
                       /\ IsExcerptOf(call.excerpt, call.record.content, 8000)
       /\ (retry = 1 /\ call.chat = "raise_raise") =>
            call.response.k = "I'm sorry, but I couldn't process your query"
       /\ (failed /\ ~long) =>
            /\ call.response.k = "Error processing your query about"
            /\ call.response.t = call.record.title
            /\ call.response.e = LlmError

C8_Witness ==
  /\ IsQuery
  /\ call.result.type = "chat"
  /\ Count(call.llm, {"chat_retry"}) = 1
  /\ call.chat = "raise_raise"
  /\ TLen(call.record.content) = 8001

\* the other side of the threshold: a failed invocation that is not retried
C8_WitnessShort ==
  /\ IsQuery
  /\ call.chat = "raise_raise"
  /\ TLen(call.record.content) = 8000
  /\ Count(call.llm, {"chat_retry"}) = 0

LlmFailed == call.env.summary = "raise" \/ call.env.genre = "raise"

\* C9 as stated: on an LLM failure the record's summary and genre both contain
\* the error message and its content is at most 4000 characters long.
C9_SummaryAndGenreCarryError ==
  (call.op = "analyze_content" /\ LlmFailed) =>
    /\ call.record.summary.e = LlmError
    /\ call.record.genre.e = LlmError
    /\ TLen(call.record.content) <= 4000

\* C9, amended: on an LLM failure (of the summary call or of the genre call) a
\* record is returned whose summary contains the error message, whose genre is
\* the fixed text "Unknown", and whose content is the first 4000 characters of
\* the sample (the whole sample when it is shorter).
C9_ErrorRecord ==
  (call.op = "analyze_content" /\ LlmFailed) =>
    /\ call.record.summary.k = "Error generating summary: "
    /\ call.record.summary.e = LlmError
    /\ call.record.genre = Txt("Unknown", "", 0)
    /\ TLen(call.record.content) = Min(4000, TLen(call.env.text))
    /\ call.env.text # << >> =>
         call.record.content = <<Piece("text", 0, Min(4000, TLen(call.env.text)))>>

C9_Witness ==
  /\ call.op = "analyze_content"
  /\ call.env.summary = "ok" /\ call.env.genre = "raise"
  /\ TLen(call.env.text) > 16000
  /\ TLen(call.record.content) = 4000

\* the three segments of the sample of a text longer than 16000 characters
Sampled == call.op = "analyze_content" /\ TLen(call.env.text) > 16000
FullSample == IF LlmFailed THEN << >> ELSE call.record.content

Abs(x) == IF x < 0 THEN 0 - x ELSE x

\* C10 as stated: each of the three segments is L/3 long, up to rounding, and
\* the middle segment is centred at index L/2.
C10_SegmentsAreThirdsOfInput ==
  (Sampled /\ ~LlmFailed) =>
    LET L == TLen(call.env.text)
        seg == [i \in {1, 2, 3} |-> FullSample[2 * i - 1]]
    IN /\ Len(FullSample) = 5
       /\ \A i \in {1, 2, 3} : Abs(3 * (seg[i].hi - seg[i].lo) - L) <= 3
       /\ Abs(seg[2].lo + seg[2].hi - L) <= 2

\* C10, amended: each of the three segments is int(16000/3) = 5333 characters
\* long, whatever L is, and the middle segment is centred at index L/2 to
\* within one character.
C10_SegmentsAreThirdsOfBudget ==
  (Sampled /\ ~LlmFailed) =>
    LET L == TLen(call.env.text)
        seg == [i \in {1, 2, 3} |-> FullSample[2 * i - 1]]
    IN /\ Len(FullSample) = 5
       /\ \A i \in {1, 2, 3} : seg[i].src = "text" /\ seg[i].hi - seg[i].lo = 5333
       /\ seg[1].lo = 0 /\ seg[3].hi = L
       /\ Abs(seg[2].lo + seg[2].hi - L) <= 2

C10_Witness ==
  /\ Sampled /\ ~LlmFailed
  /\ TLen(call.env.text) = 48000
  /\ call.record.content[3] = Piece("text", 21333, 26666)

\* C11: analysing a URL that does not contain "gutenberg.org" returns a record
\* with only an error field ("This URL does not appear to be from Project
\* Gutenberg...") and makes no HTTP fetch and no LLM invocation.
C11_NonGutenbergRejected ==
  (call.op \in {"analyze_url", "process_user_query"} /\ call.record # NoAnalysis
     /\ ~(\E i \in 1..Len(call.record.of) : call.record.of[i] = "gutenberg.org"))
    => /\ call.record.keys = {"error"}
       /\ call.record.error.k = "This URL does not appear to be from Project Gutenberg."
       /\ call.fetches = 0
       /\ call.llm = << >>

C11_Witness ==
  /\ call.op = "analyze_url"
  /\ call.arg = X1
  /\ call.record.keys = {"error"}
  /\ call.fetches = 0
  /\ current_analysis = call.record

\* C12: the title of a summary, genre or chat result is the title of the
\* session's current analysis (as it was when the call began) when there is
\* one, "Unknown Title" when there is none or it has no title, whatever URL
\* the query resolved to and whatever record was analysed during the call.
C12_TitleFromSession ==
  [][(call'.op = "process_user_query"
        /\ call'.result.type \in {"summary", "genre", "chat"})
       => /\ "title" \in call'.result.keys
          /\ call'.result.title =
               (IF current_analysis # NoAnalysis /\ "title" \in current_analysis.keys
                THEN current_analysis.title ELSE "Unknown Title")]_vars

C12_Witness ==
  /\ IsQuery
  /\ call.result.type = "summary"
  /\ call.url # current_url
  /\ call.record # NoAnalysis
  /\ call.record.title = "Frankenstein"
  /\ call.result.content.t = "Frankenstein"
  /\ call.result.title = "Alice"

\* C13: process_user_query never raises to its caller: whatever the query,
\* the URL argument, the session and the outcomes of the fetches and LLM
\* invocations, it returns a response object with a type field.
C13_NeverRaises ==
  IsQuery =>
    /\ call.raised = {}
    /\ "type" \in call.result.keys
    /\ call.result.type \in {"error", "summary", "genre", "chat"}

C13_Witness ==
  /\ IsQuery
  /\ call.env.meta = "fail"
  /\ call.chat = "raise_raise"
  /\ Count(call.llm, {"chat_retry"}) = 1
  /\ call.raised = {}
  /\ call.result.type = "chat"
  /\ call.result.content.k = "I'm sorry, but I couldn't process your query"

\* C14: a chat query never reuses the session cache: it runs the content
\* analyzer on the resolved URL (for a Project Gutenberg URL the three HTTP
\* fetches, the summary LLM call and, once that has returned, the genre LLM
\* call) before any chat LLM invocation, also when the resolved URL is
\* current_url and a successful analysis of it is cached.
C14_ChatAlwaysAnalyses ==
  (IsQuery /\ call.result.type = "chat") =>
    /\ call.record # NoAnalysis
    /\ call.record.of = call.url
    /\ (\E i \in 1..Len(call.url) : call.url[i] = "gutenberg.org") =>
         LET n == IF call.env.summary = "ok" THEN 2 ELSE 1
         IN /\ call.fetches = 3
            /\ Len(call.llm) >= n
            /\ call.llm[1] = "summary"
            /\ n = 2 => call.llm[2] = "genre"
            /\ \A i \in 1..Len(call.llm) :
                 call.llm[i] \in {"chat", "chat_retry"} <=> i > n

C14_Witness ==
  /\ IsQuery
  /\ call.result.type = "chat"
  /\ call.url = current_url
  /\ current_analysis.summary.k = "llm summary"
  /\ call.fetches = 3
  /\ call.llm = <<"summary", "genre", "chat">>

\* C15: a chat query leaves the session as it was: current_url and
\* current_analysis after the call are their values before it, whatever URL
\* it resolved to and whatever the analysis and the LLM invocations gave.
C15_ChatKeepsSession ==
  [][(call'.op = "process_user_query" /\ Truthy(call'.url)
        /\ ~HasToken(call'.query, {"summarize", "summary", "genre", "classify"}))
       => (current_url' = current_url /\ current_analysis' = current_analysis)]_vars

C15_Witness ==
  /\ IsQuery
  /\ call.result.type = "chat"
  /\ call.record # NoAnalysis
  /\ call.record.of = current_url
  /\ call.record # current_analysis
  /\ call.chat = "raise_ok"

\* C16: the genre LLM call is issued only after the summary LLM call has
\* returned (when the summary call raises, no genre call is made), and when
\* the genre call raises after a successful summary call the generated summary
\* is discarded: the record's summary holds the error text.
C16_SummaryThenGenre ==
  call.op = "analyze_content" =>
    /\ Len(call.llm) >= 1 /\ call.llm[1] = "summary"
    /\ Count(call.llm, {"summary"}) = 1
    /\ Count(call.llm, {"genre"}) = (IF call.env.summary = "raise" THEN 0 ELSE 1)
    /\ call.env.summary = "ok" => call.llm = <<"summary", "genre">>
    /\ (call.env.summary = "ok" /\ call.env.genre = "raise") =>
         /\ call.record.summary.k = "Error generating summary: "
         /\ call.record.summary.e = LlmError

C16_Witness ==
  /\ call.op = "analyze_content"
  /\ call.env.summary = "ok" /\ call.env.genre = "raise"
  /\ call.llm = <<"summary", "genre">>
  /\ call.record.summary.e = LlmError
  /\ call.record.genre.k = "Unknown"

\* C17: for a text of length L > 16000 the beginning, middle and end segments
\* are index ranges of the text within [0, L), in that order and without
\* overlap: the beginning ends at or before the start of the middle, the
\* middle at or before the start of the end.
C17_SegmentsDisjointInOrder ==
  (Sampled /\ ~LlmFailed) =>
    LET L == TLen(call.env.text)
        seg == [i \in {1, 2, 3} |-> FullSample[2 * i - 1]]
    IN /\ Len(FullSample) = 5
       /\ \A i \in {1, 2, 3} : seg[i].src = "text" /\ seg[i].lo < seg[i].hi
       /\ 0 <= seg[1].lo
       /\ seg[1].hi <= seg[2].lo
       /\ seg[2].hi <= seg[3].lo
       /\ seg[3].hi <= L

C17_Witness ==
  /\ Sampled /\ ~LlmFailed
  /\ TLen(call.env.text) = 16001
  /\ call.record.content[1] = Piece("text", 0, 5333)
  /\ call.record.content[3] = Piece("text", 5333, 10666)
  /\ call.record.content[5] = Piece("text", 10668, 16001)

====
